---- MODULE Spec2Model ----
\* A model of jumpcutter (src/main.rs): the driver `main`, its scan loop over the
\* silence-detection diagnostics, the per-interval extraction and the final
\* concatenation, together with the files and child processes it touches.
\*
\* Timestamps are f32 seconds in the program.  Here they are fixed-point
\* integers counting ticks of 5 ms, so 0.01 s is 2 ticks; every decimal the
\* model reads is a multiple of 5 ms, and the subtraction and comparison of
\* line 76 are exact on them.  NaN and the infinities are not drawn.
EXTENDS Integers, Sequences, FiniteSets, TLC

\* ---------------------------------------------------------------- bounds

\* The diagnostic stream holds at most MaxLines items.
MaxLines == 3

\* ------------------------------------------------------- program constants

\* The literal 0.01 of the degenerate-gap test, in ticks of 5 ms.
Epsilon == 2

\* The two marker keywords searched in a line (each followed by a blank).
StartMarker == "silence_start:"
EndMarker == "silence_end:"

\* First line of the concat script.
Header == "ffconcat version 1.0"

\* ------------------------------------------------------------ option type

\* Rust's Option / Result as a sequence of length 0 or 1.
None == << >>
Some(v) == << v >>
UnwrapOr(opt, d) == IF opt = None THEN d ELSE opt[1]

Abs(x) == IF x < 0 THEN -x ELSE x

\* -------------------------------------------------------- the line stream

\* A line is the sequence of its whitespace-separated words, each followed by a
\* blank.  An item of the stream is what BufRead::lines yields: Ok(line), or
\* Err for a line that is not valid UTF-8.
OkLine(words) == [ok |-> TRUE, words |-> words]
ErrLine == [ok |-> FALSE, words |-> << >>]

StartLine(tok) == OkLine(<<"[silencedetect]", StartMarker, tok>>)
EndLine(tok) == OkLine(<<"[silencedetect]", EndMarker, tok, "|", "silence_duration:", "1.0">>)

StreamItems ==
    { StartLine("-0.02"), StartLine("1.0"), StartLine("3.005"), StartLine("3.01"),
      StartLine("3.015"), StartLine("abc"),
      OkLine(<<"[silencedetect]", StartMarker>>),
      EndLine("1.0"), EndLine("3.0"), EndLine("abc"),
      OkLine(<<"[silencedetect]", EndMarker>>),
      OkLine(<<EndMarker, "3.0", "|", StartMarker, "3.015">>),
      OkLine(<<"frame=", "100", "fps=0.0">>),
      ErrLine }

\* str::find(marker + " "): the position of the first occurrence, 0 for None.
FindMarkerAny(words, marker) ==
    IF \E i \in 1..Len(words) : words[i] \in {StartMarker, EndMarker}
    THEN CHOOSE i \in 1..Len(words) :
            /\ words[i] \in {StartMarker, EndMarker}
            /\ \A j \in 1..(i - 1) : words[j] \notin {StartMarker, EndMarker}
    ELSE 0

FindMarker(words, marker) ==
    IF \E i \in 1..Len(words) : words[i] = marker
    THEN CHOOSE i \in 1..Len(words) :
            /\ words[i] = marker
            /\ \A j \in 1..(i - 1) : words[j] # marker
    ELSE 0

\* line[pos..].split_whitespace().nth(1): the word after the marker, if any.
TokenAfter(words, pos) == IF pos + 1 <= Len(words) THEN Some(words[pos + 1]) ELSE None

\* str::parse::<f32> on the decimals of the stream, in ticks; Err otherwise.
ParseF32OrZero(tok) ==
    CASE tok = "-0.02" -> Some(-4)
      [] tok = "1.0" -> Some(200)
      [] tok = "3.0" -> Some(600)
      [] tok = "3.005" -> Some(601)
      [] tok = "3.01" -> Some(602)
      [] tok = "3.015" -> Some(603)
      [] OTHER -> Some(0)

ParseF32(tok) ==
    CASE tok = "-0.02" -> Some(-4)
      [] tok = "1.0" -> Some(200)
      [] tok = "3.0" -> Some(600)
      [] tok = "3.005" -> Some(601)
      [] tok = "3.01" -> Some(602)
      [] tok = "3.015" -> Some(603)
      [] OTHER -> None

\* silence_start - silence_end (lines 76 and 84).
GapFromZero(silence_start, last_end) == silence_start

Gap(silence_start, last_end) == silence_start - last_end

\* (silence_start - silence_end).abs() > 0.01 (line 76).
KeepGapInclusive(gap) == Abs(gap) >= Epsilon

KeepGap(gap) == Abs(gap) > Epsilon

\* What the loop body decides for one line, given the cursor (lines 73-106).
Ignore == [kind |-> "ignore", start |-> 0, duration |-> 0, end |-> 0]

DecideEndFirst(words, last_end) ==
    LET ps == FindMarker(words, StartMarker)
        pe == FindMarker(words, EndMarker)
    IN  IF pe # 0
        THEN LET tok == TokenAfter(words, pe)
                 val == IF tok = None THEN None ELSE ParseF32(tok[1])
             IN  IF val # None
                 THEN [kind |-> "set_end", start |-> 0, duration |-> 0, end |-> val[1]]
                 ELSE Ignore
        ELSE IF ps # 0
        THEN LET tok == TokenAfter(words, ps)
                 val == IF tok = None THEN None ELSE ParseF32(tok[1])
             IN  IF val # None /\ KeepGap(Gap(val[1], last_end))
                 THEN [kind |-> "keep", start |-> last_end,
                       duration |-> Gap(val[1], last_end), end |-> 0]
                 ELSE Ignore
        ELSE Ignore

Decide(words, last_end) ==
    LET ps == FindMarker(words, StartMarker)
        pe == FindMarker(words, EndMarker)
    IN  IF ps # 0
        THEN LET tok == TokenAfter(words, ps)
                 val == IF tok = None THEN None ELSE ParseF32(tok[1])
             IN  IF val # None /\ KeepGap(Gap(val[1], last_end))
                 THEN [kind |-> "keep", start |-> last_end,
                       duration |-> Gap(val[1], last_end), end |-> 0]
                 ELSE Ignore
        ELSE IF pe # 0
        THEN LET tok == TokenAfter(words, pe)
                 val == IF tok = None THEN None ELSE ParseF32(tok[1])
             IN  IF val # None
                 THEN [kind |-> "set_end", start |-> 0, duration |-> 0, end |-> val[1]]
                 ELSE Ignore
        ELSE Ignore

\* format!("{:08x}", uniq): lowercase hexadecimal digits, zero-padded to 8.
HexDigits == <<"0", "1", "2", "3", "4", "5", "6", "7", "8", "9",
               "a", "b", "c", "d", "e", "f">>

RECURSIVE Hex(_)
Hex(n) == IF n < 16 THEN <<HexDigits[n + 1]>>
          ELSE Append(Hex(n \div 16), HexDigits[(n % 16) + 1])

RECURSIVE PadLeft(_, _)
PadLeft(s, width) == IF Len(s) >= width THEN s ELSE PadLeft(<<"0">> \o s, width)

\* The file name of the piece cut while reading line number uniq (line 79).
PieceNameFixed(n) == <<"piece-">> \o PadLeft(Hex(0), 8) \o <<".mkv">>

PieceName(n) == <<"piece-">> \o PadLeft(Hex(n), 8) \o <<".mkv">>

\* ------------------------------------------------------ child processes

\* What a child ends with: an exit code, or a signal (no code).
ChildCodes == {0, 3}
ExitStatuses == { [state |-> "exited", code |-> c] : c \in ChildCodes }
                \cup { [state |-> "signaled", code |-> 0] }

NotStarted == [state |-> "none", code |-> 0]
Running == [state |-> "running", code |-> 0]

\* ExitStatus::success and ExitStatus::code.
SuccessAlways(st) == TRUE

Success(st) == st.state = "exited" /\ st.code = 0

StatusCode(st) == IF st.state = "exited" THEN Some(st.code) ELSE None

\* status.code().unwrap_or(1) (lines 95 and 126).
ExitCodeAlwaysOne(st) == 1

ExitCodeOf(st) == UnwrapOr(StatusCode(st), 1)

\* io::Error::raw_os_error of a failed system call: an errno, or none.
OsErrors == {Some(2), None}

\* err.raw_os_error().unwrap_or(1) (lines 36, 44, 52, 66, 91, 122).
ErrorCodeAlwaysOne(err) == 1

ErrorCodeOf(err) == UnwrapOr(err, 1)

\* Path::new(&output_file).exists() (line 24).
NeverExists(out) == FALSE

OutputExists(out) == out # "absent"

\* ------------------------------------------------------------------ state

VARIABLES
    pc,           \* where main is: a step of the start-up, the loop, or the end
    failure,      \* which step ended the run early ("none" while it has not)
    exitCode,     \* the process's exit code, None while it runs
    output,       \* the output path: "absent", "preexisting", "partial", "complete"
    tempdir,      \* the temporary directory: "none", "exists", "removed"
    script,       \* concat.txt: its handle's state, header and "file" entries
    silence_end,  \* the cursor of the scan loop (line 70)
    uniq,         \* the enumerate counter of the scan loop (line 71)
    consumed,     \* the items read from the scan's stderr so far
    emitted,      \* the intervals kept so far (line 77), in order
    launched,     \* the extractions spawned so far, with their exit status
    scan,         \* the silence-detection child
    concat,       \* the concatenation child
    oserror       \* the io::Error that ended the run, if one did

vars == <<pc, failure, exitCode, output, tempdir, script, silence_end, uniq,
          consumed, emitted, launched, scan, concat, oserror>>

\* No system call has failed.
NoError == [raised |-> FALSE, errno |-> None]

Init ==
    /\ pc = "CheckOutput"
    /\ failure = "none"
    /\ exitCode = None
    /\ output \in {"absent", "preexisting"}
    /\ tempdir = "none"
    /\ script = [state |-> "none", header |-> FALSE, files |-> << >>]
    /\ silence_end = 0
    /\ uniq = 0
    /\ consumed = << >>
    /\ emitted = << >>
    /\ launched = << >>
    /\ scan = NotStarted
    /\ concat = NotStarted
    /\ oserror = NoError

\* std::process::exit(code): the process ends at once and no destructor runs,
\* so the TempDir guard never removes the directory.
Exit(why, code) ==
    /\ pc' = "Failed"
    /\ failure' = why
    /\ exitCode' = Some(code)

\* unwrap_or_else(|err| exit(err.raw_os_error().unwrap_or(1))): a failed system
\* call ends the run with its errno, or 1 when it has none.
ExitOnError(why, err) ==
    /\ Exit(why, ErrorCodeOf(err))
    /\ oserror' = [raised |-> TRUE, errno |-> err]

\* A panic (the expect of lines 46 and 81) unwinds main: the File and the
\* TempDir guards are dropped, and the process ends with code 101.
Panic(why) ==
    /\ pc' = "Failed"
    /\ failure' = why
    /\ exitCode' = Some(101)
    /\ tempdir' = "removed"
    /\ UNCHANGED oserror

\* ---------------------------------------------------------------- start-up

\* Lines 24-27.
CheckOutput ==
    /\ pc = "CheckOutput"
    /\ IF OutputExists(output)
       THEN Exit("output_exists", 1) /\ UNCHANGED oserror
       ELSE /\ pc' = "CreateTempdir"
            /\ UNCHANGED <<failure, exitCode, oserror>>
    /\ UNCHANGED <<output, tempdir, script, silence_end, uniq, consumed, emitted,
                   launched, scan, concat>>

\* Lines 30-37.
CreateTempdir ==
    /\ pc = "CreateTempdir"
    /\ \/ /\ tempdir' = "exists"
          /\ pc' = "CreateScript"
          /\ UNCHANGED <<failure, exitCode, oserror>>
       \/ /\ \E err \in OsErrors : ExitOnError("tempdir", err)
          /\ UNCHANGED tempdir
    /\ UNCHANGED <<output, script, silence_end, uniq, consumed, emitted, launched,
                   scan, concat>>

\* Lines 40-46: File::create, then the header line.
CreateScript ==
    /\ pc = "CreateScript"
    /\ \/ /\ script' = [state |-> "open", header |-> TRUE, files |-> << >>]
          /\ pc' = "Canonicalize"
          /\ UNCHANGED <<failure, exitCode, oserror, tempdir>>
       \/ /\ script' = [state |-> "closed", header |-> FALSE, files |-> << >>]
          /\ Panic("header_write")
       \/ /\ \E err \in OsErrors : ExitOnError("script_create", err)
          /\ UNCHANGED <<script, tempdir>>
    /\ UNCHANGED <<output, silence_end, uniq, consumed, emitted, launched, scan,
                   concat>>

\* Lines 47-53.
Canonicalize ==
    /\ pc = "Canonicalize"
    /\ \/ /\ pc' = "SpawnScan"
          /\ UNCHANGED <<failure, exitCode, oserror>>
       \/ \E err \in OsErrors : ExitOnError("canonicalize", err)
    /\ UNCHANGED <<output, tempdir, script, silence_end, uniq, consumed, emitted,
                   launched, scan, concat>>

\* Lines 56-70: spawn the silence detection with its stderr piped.
SpawnScan ==
    /\ pc = "SpawnScan"
    /\ \/ /\ scan' = Running
          /\ pc' = "Scanning"
          /\ UNCHANGED <<failure, exitCode, oserror>>
       \/ /\ \E err \in OsErrors : ExitOnError("scan_spawn", err)
          /\ UNCHANGED scan
    /\ UNCHANGED <<output, tempdir, script, silence_end, uniq, consumed, emitted,
                   launched, concat>>

\* ---------------------------------------------------------------- scan loop

\* Line 71, filter_map(Result::ok): an undecodable line is dropped before
\* enumerate counts it.
SkipUndecodableLine ==
    /\ pc = "Scanning"
    /\ Len(consumed) < MaxLines
    /\ consumed' = Append(consumed, ErrLine)
    /\ UNCHANGED <<pc, failure, exitCode, oserror, output, tempdir, script, silence_end,
                   uniq, emitted, launched, scan, concat>>

\* Lines 71-107: one turn of the loop on a decoded line.  A kept interval is
\* logged, its piece is appended to the script, and the extraction is spawned;
\* Command::status then blocks until the child ends (ExtractionExit).
ScanLine ==
    /\ pc = "Scanning"
    /\ Len(consumed) < MaxLines
    /\ \E item \in StreamItems :
        /\ item.ok
        /\ consumed' = Append(consumed, item)
        /\ uniq' = uniq + 1
        /\ LET d == Decide(item.words, silence_end) IN
           CASE d.kind = "ignore" ->
                  UNCHANGED <<pc, failure, exitCode, oserror, tempdir, script, silence_end,
                              emitted, launched>>
             [] d.kind = "set_end" ->
                  /\ silence_end' = d.end
                  /\ UNCHANGED <<pc, failure, exitCode, oserror, tempdir, script, emitted,
                                 launched>>
             [] d.kind = "keep" ->
                  /\ emitted' = Append(emitted, [start |-> d.start,
                                                 duration |-> d.duration])
                  /\ UNCHANGED silence_end
                  /\ \/ /\ Panic("entry_write")
                        /\ script' = [script EXCEPT !.state = "closed"]
                        /\ UNCHANGED launched
                     \/ /\ script' = [script EXCEPT
                                        !.files = Append(@, PieceName(uniq))]
                        /\ \/ /\ launched' = Append(launched,
                                    [ss |-> d.start, t |-> d.duration,
                                     piece |-> PieceName(uniq), status |-> Running])
                              /\ pc' = "Extracting"
                              /\ UNCHANGED <<failure, exitCode, oserror, tempdir>>
                           \/ /\ \E err \in OsErrors :
                                    ExitOnError("extract_spawn", err)
                              /\ UNCHANGED <<launched, tempdir>>
    /\ UNCHANGED <<output, scan, concat>>

\* Lines 88-96: the extraction child ends; a failure ends the run.
ExtractionExit ==
    /\ pc = "Extracting"
    /\ \E st \in ExitStatuses :
        /\ launched' = [launched EXCEPT ![Len(launched)].status = st]
        /\ IF Success(st)
           THEN /\ pc' = "Scanning"
                /\ UNCHANGED <<failure, exitCode, oserror>>
           ELSE Exit("extract_exit", ExitCodeOf(st)) /\ UNCHANGED oserror
    /\ UNCHANGED <<output, tempdir, script, silence_end, uniq, consumed, emitted,
                   scan, concat>>

\* Lines 107-123: the scan's stderr reaches end of file (the child has ended,
\* with a status nobody asks for); the script is closed and the concatenation
\* is spawned.
ScanEof ==
    /\ pc = "Scanning"
    /\ \E st \in ExitStatuses : scan' = st
    /\ script' = [script EXCEPT !.state = "closed"]
    /\ \/ /\ concat' = Running
          /\ pc' = "Concatenating"
          /\ UNCHANGED <<failure, exitCode, oserror>>
       \/ /\ \E err \in OsErrors : ExitOnError("concat_spawn", err)
          /\ UNCHANGED concat
    /\ UNCHANGED <<output, tempdir, silence_end, uniq, consumed, emitted, launched>>

\* Lines 119-128: the concatenation child ends.  On success main returns: the
\* TempDir guard is dropped and the directory removed.  A failing child may
\* already have created the output file.
ConcatExit ==
    /\ pc = "Concatenating"
    /\ \E st \in ExitStatuses :
        /\ concat' = st
        /\ IF Success(st)
           THEN /\ pc' = "Done"
                /\ exitCode' = Some(0)
                /\ output' = "complete"
                /\ tempdir' = "removed"
                /\ UNCHANGED <<failure, oserror>>
           ELSE /\ Exit("concat_exit", ExitCodeOf(st))
                /\ UNCHANGED oserror
                /\ output' \in {"absent", "partial"}
                /\ UNCHANGED tempdir
    /\ UNCHANGED <<script, silence_end, uniq, consumed, emitted, launched, scan>>

Next ==
    \/ CheckOutput
    \/ CreateTempdir
    \/ CreateScript
    \/ Canonicalize
    \/ SpawnScan
    \/ SkipUndecodableLine
    \/ ScanLine
    \/ ExtractionExit
    \/ ScanEof
    \/ ConcatExit

Spec == Init /\ [][Next]_vars

\* =================================================================== claims

\* ---- vocabulary of the claims, read off the stream itself

\* The decimals a marker can carry, and their value in ticks of 5 ms.
Numerals == {"-0.02", "1.0", "3.0", "3.005", "3.01", "3.015"}

Ticks(tok) ==
    CASE tok = "-0.02" -> -4
      [] tok = "1.0" -> 200
      [] tok = "3.0" -> 600
      [] tok = "3.005" -> 601
      [] tok = "3.01" -> 602
      [] tok = "3.015" -> 603

HasMarker(item, marker) ==
    item.ok /\ \E i \in 1..Len(item.words) : item.words[i] = marker

\* The word that follows the first occurrence of the marker, None if none does.
MarkerToken(item, marker) ==
    LET w == item.words
        first == CHOOSE i \in 1..Len(w) :
                    w[i] = marker /\ \A j \in 1..(i - 1) : w[j] # marker
    IN  IF first < Len(w) THEN Some(w[first + 1]) ELSE None

\* The marker is there and its number is missing or is no number.
Malformed(item, marker) ==
    /\ HasMarker(item, marker)
    /\ \/ MarkerToken(item, marker) = None
       \/ MarkerToken(item, marker)[1] \notin Numerals

\* The marker is there with a number.
WellFormed(item, marker) == HasMarker(item, marker) /\ ~Malformed(item, marker)

MarkerTicks(item, marker) == Ticks(MarkerToken(item, marker)[1])

\* This step reads one more item of the stream; JustRead is that item.
ReadsItem == Len(consumed') = Len(consumed) + 1
JustRead == consumed'[Len(consumed')]

LastRead == consumed[Len(consumed)]

Terminal == pc \in {"Done", "Failed"}

\* ---- C1

IsMarkerItem(item) == HasMarker(item, StartMarker) \/ HasMarker(item, EndMarker)

MarkerItems(stream) == SelectSeq(stream, IsMarkerItem)

IsStartItem(item) == HasMarker(item, StartMarker)

KindOf(item) == IF IsStartItem(item) THEN "start" ELSE "end"

StampOf(item) == IF IsStartItem(item) THEN MarkerTicks(item, StartMarker)
                 ELSE MarkerTicks(item, EndMarker)

\* Marker lines carrying one marker each, a number each, alternating in kind,
\* with strictly increasing timestamps after the implicit silence_end at 0.
ValidStream(stream) ==
    LET m == MarkerItems(stream) IN
    \A i \in 1..Len(m) :
        /\ ~(HasMarker(m[i], StartMarker) /\ HasMarker(m[i], EndMarker))
        /\ WellFormed(m[i], IF IsStartItem(m[i]) THEN StartMarker ELSE EndMarker)
        /\ IF i = 1
           THEN IF IsStartItem(m[i]) THEN StampOf(m[i]) > 0 ELSE StampOf(m[i]) >= 0
           ELSE /\ KindOf(m[i]) # KindOf(m[i - 1])
                /\ StampOf(m[i]) > StampOf(m[i - 1])

\* The non-silent spans of a valid stream: one per silence_start, from the
\* silence_end before it (0 at the head of the stream) up to it.
SpanIsKept(span) == span.duration > Epsilon
SpanIsAny(span) == TRUE

SpansBefore(stream) ==
    LET m == MarkerItems(stream)
        starts == { i \in 1..Len(m) : IsStartItem(m[i]) }
        Nth(k) == CHOOSE i \in starts : Cardinality({ j \in starts : j < i }) = k - 1
    IN  [ k \in 1..Cardinality(starts) |->
            LET i == Nth(k)
                from == IF i = 1 THEN 0 ELSE StampOf(m[i - 1])
            IN  [start |-> from, duration |-> StampOf(m[i]) - from] ]

\* C1 as stated: for every stream of alternating silence_end / silence_start
\* lines with strictly increasing timestamps, the kept intervals are exactly the
\* complement of the silent spans, one per silence_start, in stream order.
C1_EmitsWholeComplement ==
    ValidStream(consumed) => emitted = SelectSeq(SpansBefore(consumed), SpanIsAny)

\* C1 as amended: for every such stream the kept intervals are exactly the
\* complement spans that are longer than 0.01 s (a span of at most 0.01 s is
\* skipped), each with start = the silence_end before it and duration =
\* silence_start - silence_end, in stream order.
C1_EmitsKeptComplement ==
    ValidStream(consumed) => emitted = SelectSeq(SpansBefore(consumed), SpanIsKept)

\* A valid stream of three marker lines has been read and two intervals kept.
C1_Witness ==
    /\ ValidStream(consumed)
    /\ Len(MarkerItems(consumed)) = 3
    /\ Len(emitted) = 2
    /\ emitted[2].start > 0
    /\ Len(launched) = 2
    /\ pc = "Scanning"

\* ---- C2

\* C2: a silence_start line whose value is within 0.01 s of the cursor changes
\* nothing (no interval, no script entry, no extraction, cursor unchanged, the
\* scan goes on), and an interval is kept only on a silence_start line whose
\* value differs from the cursor by more than 0.01 s.
C2_DegenerateGapIsNoOp ==
    [][ /\ ( /\ ReadsItem
             /\ WellFormed(JustRead, StartMarker)
             /\ Abs(MarkerTicks(JustRead, StartMarker) - silence_end) <= Epsilon )
           => /\ emitted' = emitted
              /\ script' = script
              /\ launched' = launched
              /\ silence_end' = silence_end
              /\ pc' = pc
        /\ emitted' # emitted
           => /\ ReadsItem
              /\ WellFormed(JustRead, StartMarker)
              /\ Abs(MarkerTicks(JustRead, StartMarker) - silence_end) > Epsilon
      ]_vars

\* A silence_start exactly 0.01 s after the cursor has just been read.
C2_Witness ==
    /\ pc = "Scanning"
    /\ consumed # << >>
    /\ WellFormed(LastRead, StartMarker)
    /\ ~HasMarker(LastRead, EndMarker)
    /\ MarkerTicks(LastRead, StartMarker) - silence_end = Epsilon
    /\ emitted = << >>

\* ---- C3

\* C3: every interval handed to an extraction has duration > 0 and start >= 0:
\* the -t argument is always positive and the -ss argument never negative.
C3_IntervalsPositive ==
    \A i \in 1..Len(launched) : launched[i].t > 0 /\ launched[i].ss >= 0

\* ---- C4

\* C4: a marker line whose number is missing or unparsable changes nothing and
\* never ends the scan: a malformed silence_end leaves the cursor unchanged, a
\* malformed silence_start keeps no interval, appends nothing to the script and
\* launches nothing, and the loop goes on to the next line.
C4_MalformedIsIgnored ==
    [][ ReadsItem =>
          /\ Malformed(JustRead, EndMarker) => silence_end' = silence_end
          /\ Malformed(JustRead, StartMarker)
             => /\ emitted' = emitted
                /\ script' = script
                /\ launched' = launched
          /\ ( \/ Malformed(JustRead, StartMarker)
               \/ (Malformed(JustRead, EndMarker) /\ ~HasMarker(JustRead, StartMarker)) )
             => /\ pc' = "Scanning"
                /\ silence_end' = silence_end
                /\ emitted' = emitted
                /\ script' = script
                /\ launched' = launched
                /\ failure' = "none"
      ]_vars

\* A malformed marker line has just been read with the cursor away from 0 and
\* an interval already kept.
C4_Witness ==
    /\ pc = "Scanning"
    /\ consumed # << >>
    /\ Malformed(LastRead, StartMarker) \/ Malformed(LastRead, EndMarker)
    /\ silence_end # 0
    /\ emitted # << >>

\* ---- C5

NoStartMarker(stream) == \A i \in 1..Len(stream) : ~HasMarker(stream[i], StartMarker)

ScanEnded == scan.state \in {"exited", "signaled"}

\* C5: while the stream read so far holds no silence_start marker, no interval
\* is kept, no extraction is launched, the script holds its header and no
\* "file" entry, nothing ends the run inside the loop, and at the end of the
\* stream the concatenation is attempted.
C5_NoStartNoInterval ==
    NoStartMarker(consumed) =>
        /\ emitted = << >>
        /\ launched = << >>
        /\ script.files = << >>
        /\ pc \in {"Scanning", "Concatenating", "Done"} => script.header
        /\ failure \notin {"entry_write", "extract_spawn", "extract_exit"}
        /\ pc = "Extracting" => FALSE
        /\ ScanEnded => \/ concat # NotStarted
                        \/ failure = "concat_spawn"

\* A stream with a silence_end and no silence_start has been read to its end and
\* the concatenation runs.
C5_Witness ==
    /\ NoStartMarker(consumed)
    /\ \E i \in 1..Len(consumed) : WellFormed(consumed[i], EndMarker)
    /\ Len(consumed) >= 2
    /\ pc = "Concatenating"
    /\ script.state = "closed"

\* ---- C6

\* C6: when the output path exists at the start, the run ends with exit code 1
\* and, before that, no temporary directory and no script is created and no
\* child is launched.
C6_ExistingOutputFailsFast ==
    output = "preexisting" =>
        /\ pc \in {"CheckOutput", "Failed"}
        /\ tempdir = "none"
        /\ script.state = "none"
        /\ scan = NotStarted
        /\ launched = << >>
        /\ concat = NotStarted
        /\ pc = "Failed" => exitCode = Some(1) /\ failure = "output_exists"

\* The run has ended on the existing output.
C6_Witness == pc = "Failed" /\ output = "preexisting" /\ failure = "output_exists"

\* ---- C7

\* C7: in every terminal state the temporary directory no longer exists.
C7_WorkspaceRemoved == Terminal => tempdir # "exists"

\* ---- C8

ExtractionFailed(i) ==
    launched[i].status.state \in {"exited", "signaled"} /\ ~(launched[i].status.state = "exited" /\ launched[i].status.code = 0)

SomeExtractionFailed == \E i \in 1..Len(launched) : ExtractionFailed(i)

\* C8: once an extraction has ended with a non-zero status the run is over: it
\* is the last extraction launched, the concatenation is never launched, the
\* exit code is the child's code, or 1 when it has none, and no further step
\* (no line read, no launch) is taken.
C8_ExtractionFailureAborts ==
    /\ [](\A i \in 1..Len(launched) : ExtractionFailed(i) =>
            /\ i = Len(launched)
            /\ pc = "Failed"
            /\ failure = "extract_exit"
            /\ concat = NotStarted
            /\ exitCode = IF launched[i].status.state = "exited"
                          THEN Some(launched[i].status.code) ELSE Some(1))
    /\ [][SomeExtractionFailed => UNCHANGED vars]_vars

\* An extraction has exited with code 3 after an earlier one succeeded.
C8_Witness ==
    /\ Len(launched) = 2
    /\ launched[2].status = [state |-> "exited", code |-> 3]
    /\ exitCode = Some(3)

\* ---- C9

\* C9: when the silence detection ends with a non-zero status the run ends in
\* Failed (with that child's exit code) and never in Done with exit status 0.
\* The formula is the part of it every reading shares: such a run is not Done.
C9_ScanFailureFailsRun ==
    (Terminal /\ ScanEnded /\ ~(scan.state = "exited" /\ scan.code = 0)) =>
        /\ pc = "Failed"
        /\ exitCode # Some(0)

\* ---- C10

\* C10: in every terminal state of a run that started without the output file,
\* the output is fully produced (and the run is Done) or does not exist.
C10_NoPartialOutput ==
    (Terminal /\ failure # "output_exists") =>
        \/ pc = "Done" /\ output = "complete"
        \/ output = "absent"

\* ---- C11

ConcatFailed ==
    concat.state \in {"exited", "signaled"} /\ ~(concat.state = "exited" /\ concat.code = 0)

\* C11: the exit code is 0 only when the concatenation was launched and exited
\* with 0; when it exits non-zero the exit code is its code, or 1 if it has
\* none; when it cannot be launched the exit code is the errno of the failure,
\* or 1 if it has none.
C11_ExitCodeFollowsConcat ==
    /\ exitCode = Some(0) => pc = "Done" /\ concat = [state |-> "exited", code |-> 0]
    /\ pc = "Done" => exitCode = Some(0)
    /\ ConcatFailed =>
          /\ pc = "Failed"
          /\ failure = "concat_exit"
          /\ exitCode = IF concat.state = "exited" THEN Some(concat.code) ELSE Some(1)
    /\ failure = "concat_spawn" =>
          /\ pc = "Failed"
          /\ concat = NotStarted
          /\ oserror.raised
          /\ exitCode = IF oserror.errno # None THEN oserror.errno ELSE Some(1)

\* The concatenation could not be launched and the run ended with the errno.
C11_Witness ==
    /\ failure = "concat_spawn"
    /\ oserror = [raised |-> TRUE, errno |-> Some(2)]
    /\ exitCode = Some(2)
    /\ launched # << >>

\* ---- C12

\* The driver state of section 4.4 that a program point belongs to.
DriverState(at) ==
    IF at \in {"CheckOutput", "CreateTempdir", "CreateScript", "Canonicalize", "SpawnScan"}
    THEN "Init" ELSE at

DriverTransitions ==
    { <<"Init", "Init">>, <<"Init", "Scanning">>, <<"Scanning", "Scanning">>,
      <<"Scanning", "Extracting">>, <<"Extracting", "Scanning">>,
      <<"Scanning", "Concatenating">>, <<"Concatenating", "Done">> }
    \cup { <<from, "Failed">> : from \in {"Init", "Scanning", "Extracting", "Concatenating"} }

ScanFailed ==
    scan.state \in {"exited", "signaled"} /\ ~(scan.state = "exited" /\ scan.code = 0)

\* Some external invocation has failed: it could not be launched, or it ended
\* with a non-zero status.
InvocationFailed ==
    \/ failure \in {"scan_spawn", "extract_spawn", "concat_spawn"}
    \/ ScanFailed
    \/ SomeExtractionFailed
    \/ ConcatFailed

\* The steps of the driver follow the state machine, and Done and Failed are
\* left by no step.
C12_FollowsStateMachine ==
    [][ /\ <<DriverState(pc), DriverState(pc')>> \in DriverTransitions
        /\ pc' = "Failed" => failure' # "none"
        /\ ~Terminal
      ]_vars

\* No invocation is launched after one has failed: an extraction is launched
\* only when the scan and every extraction before it are still unfailed, and
\* the concatenation only when the scan and every extraction succeeded.
C12_NoLaunchAfterFailure ==
    /\ \A i \in 1..Len(launched) : ExtractionFailed(i) => i = Len(launched)
    /\ SomeExtractionFailed => concat = NotStarted
    /\ concat # NotStarted => ~ScanFailed
    /\ InvocationFailed /\ Terminal => pc = "Failed"

\* C12: the driver only steps Init -> Scanning -> (Extracting -> Scanning)* ->
\* Concatenating -> Done, or to Failed on a failure; Done and Failed are
\* terminal; and after any external invocation has failed no invocation is
\* launched again.
C12_DriverStateMachine == C12_FollowsStateMachine /\ []C12_NoLaunchAfterFailure

\* ---- C13

\* The child has ended with exit code 0.
ExitedZero(st) == st = [state |-> "exited", code |-> 0]

InFlight == { i \in 1..Len(launched) : launched[i].status = Running }

\* The extraction of every kept interval has been launched with its arguments.
EveryIntervalLaunched ==
    /\ Len(launched) = Len(emitted)
    /\ \A i \in 1..Len(launched) :
          launched[i].ss = emitted[i].start /\ launched[i].t = emitted[i].duration

\* All but possibly the last kept interval have their extraction launched.
LaunchedIsPrefixOfEmitted ==
    /\ Len(launched) <= Len(emitted)
    /\ Len(emitted) <= Len(launched) + 1
    /\ \A i \in 1..Len(launched) :
          launched[i].ss = emitted[i].start /\ launched[i].t = emitted[i].duration

\* Extractions run one at a time and to their end before the loop reads on,
\* and the concatenation starts only after the end of the stream, with every
\* extraction successful and the script closed.
Serialized ==
    /\ Cardinality(InFlight) <= 1
    /\ InFlight # {} <=> pc = "Extracting"
    /\ pc = "Extracting" => InFlight = {Len(launched)}
    /\ concat # NotStarted =>
          /\ ScanEnded
          /\ \A i \in 1..Len(launched) : ExitedZero(launched[i].status)
          /\ script.state = "closed"

ReadsOnlyWhenIdle ==
    [][ReadsItem => InFlight = {} /\ (\A i \in 1..Len(launched) : ExitedZero(launched[i].status))]_vars

\* C13 as stated: every kept interval has exactly one extraction, launched with
\* its start and duration and ended before the next line is read; at most one
\* extraction is in flight; the concatenation is launched only after the end of
\* the stream, every extraction having succeeded and the script being closed.
C13_SerializedEveryInterval ==
    /\ [](EveryIntervalLaunched /\ Serialized)
    /\ ReadsOnlyWhenIdle

\* C13 as amended: the same, except that the interval kept last has no
\* extraction when writing its script entry or launching its extraction
\* failed, which ended the run.
C13_SerializedUnlessLaunchFails ==
    /\ [](/\ LaunchedIsPrefixOfEmitted
          /\ Len(launched) < Len(emitted)
             => pc = "Failed" /\ failure \in {"entry_write", "extract_spawn"}
          /\ Serialized)
    /\ ReadsOnlyWhenIdle

\* Two intervals have been kept and extracted one after the other, and the
\* concatenation runs.
C13_Witness ==
    /\ Len(emitted) = 2
    /\ EveryIntervalLaunched
    /\ pc = "Concatenating"

\* ---- C14

\* C14 as stated: a line with a silence_end marker and a parsable number sets
\* the cursor to that number and keeps no interval, also when the line holds a
\* silence_start marker too; the silence_start rule applies only to lines with
\* no silence_end marker.
C14_EndMarkerFirst ==
    [][ ReadsItem =>
          /\ WellFormed(JustRead, EndMarker)
             => /\ silence_end' = MarkerTicks(JustRead, EndMarker)
                /\ emitted' = emitted
          /\ emitted' # emitted => ~HasMarker(JustRead, EndMarker)
      ]_vars

\* C14 as amended: the silence_start marker comes first.  A line with a
\* silence_start marker is handled by the silence_start rule alone, also when
\* it holds a silence_end marker too: the cursor is unchanged, and an interval
\* is kept exactly when its number parses and differs from the cursor by more
\* than 0.01 s.  The silence_end rule applies only to lines with no
\* silence_start marker: with a parsable number such a line sets the cursor to
\* it and keeps no interval.
C14_StartMarkerFirst ==
    [][ ReadsItem =>
          /\ HasMarker(JustRead, StartMarker)
             => /\ silence_end' = silence_end
                /\ IF /\ WellFormed(JustRead, StartMarker)
                      /\ Abs(MarkerTicks(JustRead, StartMarker) - silence_end) > Epsilon
                   THEN emitted' = Append(emitted,
                           [start |-> silence_end,
                            duration |-> MarkerTicks(JustRead, StartMarker) - silence_end])
                   ELSE emitted' = emitted
          /\ (WellFormed(JustRead, EndMarker) /\ ~HasMarker(JustRead, StartMarker))
             => /\ silence_end' = MarkerTicks(JustRead, EndMarker)
                /\ emitted' = emitted
      ]_vars

\* A line with both markers has just been read: its interval was kept and
\* extracted, and the cursor is not the line's silence_end.
C14_Witness ==
    /\ pc = "Scanning"
    /\ consumed # << >>
    /\ WellFormed(LastRead, StartMarker)
    /\ WellFormed(LastRead, EndMarker)
    /\ silence_end # MarkerTicks(LastRead, EndMarker)
    /\ emitted # << >>
    /\ emitted[Len(emitted)].duration = MarkerTicks(LastRead, StartMarker) - silence_end
    /\ Len(launched) = Len(emitted)

\* ---- C15

HexDigitValue(c) == CHOOSE k \in 0..15 : HexDigits[k + 1] = c

RECURSIVE HexValue(_)
HexValue(digits) ==
    IF digits = << >> THEN 0
    ELSE 16 * HexValue(SubSeq(digits, 1, Len(digits) - 1)) + HexDigitValue(digits[Len(digits)])

\* The number written between "piece-" and ".mkv".
SuffixValue(name) == HexValue(SubSeq(name, 2, Len(name) - 1))

\* C15: two distinct kept intervals of a run have distinct piece names, and the
\* numeric suffix grows strictly in emission order, in the script as well as in
\* the extractions launched.
C15_PieceNamesDistinct ==
    /\ \A i, j \in 1..Len(script.files) :
          i < j => /\ script.files[i] # script.files[j]
                   /\ SuffixValue(script.files[i]) < SuffixValue(script.files[j])
    /\ \A i \in 1..Len(launched) : launched[i].piece = script.files[i]
    /\ Len(script.files) <= Len(emitted)

\* Two pieces have been named and extracted, from lines that are not next to
\* each other.
C15_Witness ==
    /\ Len(launched) = 2
    /\ Len(emitted) = 2
    /\ SuffixValue(launched[1].piece) = 0
    /\ SuffixValue(launched[2].piece) = 2
    /\ pc = "Scanning"

\* ---- C16

ExtractionSucceeded(x) == ExitedZero(x.status)

\* The pieces of the extractions that exited with 0, in launch order.
SucceededPieces ==
    LET good == SelectSeq(launched, ExtractionSucceeded)
    IN  [ i \in 1..Len(good) |-> good[i].piece ]

\* The script only grows at its end, and an extraction that is launched has
\* its entry in the script already.
ScriptAppendOnly ==
    [][ /\ Len(script'.files) >= Len(script.files)
        /\ SubSeq(script'.files, 1, Len(script.files)) = script.files
        /\ Len(launched') > Len(launched)
           => /\ Len(script'.files) = Len(launched')
              /\ script'.files[Len(launched')] = launched'[Len(launched')].piece
      ]_vars

\* When the concatenation is launched the script lists exactly the pieces of
\* the successful extractions, in order, and every extraction was successful.
ScriptMatchesPiecesAtConcat ==
    concat # NotStarted =>
        /\ script.files = SucceededPieces
        /\ Len(script.files) = Len(launched)

\* C16 as stated: the script is append-only, an entry is appended before its
\* extraction is launched, in every reachable state the number of entries is
\* the number of extractions launched, and when the concatenation is launched
\* the entries are exactly the pieces of the successful extractions, in order.
C16_EntriesEqualLaunched ==
    /\ ScriptAppendOnly
    /\ [](Len(script.files) = Len(launched))
    /\ []ScriptMatchesPiecesAtConcat

\* C16 as amended: the same, except in the terminal state reached when the
\* launch of an extraction fails, where the script holds one entry more than
\* there are extractions launched.
C16_EntriesEqualLaunchedUnlessSpawnFails ==
    /\ ScriptAppendOnly
    /\ [](\/ Len(script.files) = Len(launched)
          \/ /\ pc = "Failed"
             /\ failure = "extract_spawn"
             /\ Len(script.files) = Len(launched) + 1)
    /\ []ScriptMatchesPiecesAtConcat

\* The concatenation runs on a script of two entries whose extractions both
\* succeeded.
C16_Witness ==
    /\ pc = "Concatenating"
    /\ Len(script.files) = 2
    /\ script.files = SucceededPieces
    /\ script.state = "closed"

\* ---- C17

ParsableStartLines(stream) ==
    Cardinality({ i \in 1..Len(stream) : WellFormed(stream[i], StartMarker) })

\* C17: an interval is kept only while a line with a parsable silence_start
\* marker is processed, one per line at most, so there are never more intervals
\* than such lines read; a step that reads no line, the end of the stream among
\* them, keeps no interval and launches no extraction, so the span after the
\* last silence_end is never kept.
C17_OnlyStartLinesEmit ==
    /\ [](Len(emitted) <= ParsableStartLines(consumed))
    /\ [][ emitted' # emitted
           => /\ ReadsItem
              /\ WellFormed(JustRead, StartMarker)
              /\ Len(emitted') = Len(emitted) + 1
              /\ SubSeq(emitted', 1, Len(emitted)) = emitted
       ]_vars
    /\ [][ ~ReadsItem => emitted' = emitted /\ Len(launched') = Len(launched) ]_vars

\* The stream has ended right after a silence_end, one interval was kept
\* before it, and the concatenation runs without the span after it.
C17_Witness ==
    /\ pc = "Concatenating"
    /\ consumed # << >>
    /\ WellFormed(LastRead, EndMarker)
    /\ ~HasMarker(LastRead, StartMarker)
    /\ silence_end = MarkerTicks(LastRead, EndMarker)
    /\ Len(emitted) = 1
    /\ Len(launched) = 1
    /\ Len(script.files) = 1

\* ---- C18

IsParsableEndLine(item) == WellFormed(item, EndMarker)

IsEndOnlyLine(item) == WellFormed(item, EndMarker) /\ ~HasMarker(item, StartMarker)

\* The value of the last line of the stream with a parsable silence_end
\* marker, 0 when there is none; and the same over the lines that hold no
\* silence_start marker.
LastEndValue(stream) ==
    LET ends == SelectSeq(stream, IsParsableEndLine)
    IN  IF ends = << >> THEN 0 ELSE MarkerTicks(ends[Len(ends)], EndMarker)

LastEndOnlyValue(stream) ==
    LET ends == SelectSeq(stream, IsEndOnlyLine)
    IN  IF ends = << >> THEN 0 ELSE MarkerTicks(ends[Len(ends)], EndMarker)

\* The cursor starts at 0, moves only on a line with a parsable silence_end
\* marker, and stays on a silence_start line and on an unmarked line.
CursorMovesOnEndOnly ==
    /\ [](consumed = << >> => silence_end = 0)
    /\ [][ silence_end' # silence_end
           => /\ ReadsItem
              /\ WellFormed(JustRead, EndMarker)
              /\ silence_end' = MarkerTicks(JustRead, EndMarker)
       ]_vars
    /\ [][ (ReadsItem /\ (HasMarker(JustRead, StartMarker) \/ ~HasMarker(JustRead, EndMarker)))
           => silence_end' = silence_end
       ]_vars

\* C18 as stated: the cursor moves as above, and every interval kept starts at
\* the value of the most recent line with a parsable silence_end marker before
\* it (0 if none).
C18_StartIsLastEndLine ==
    /\ CursorMovesOnEndOnly
    /\ [][ emitted' # emitted
           => emitted'[Len(emitted')].start = LastEndValue(consumed) ]_vars

\* C18 as amended: the cursor moves as above, and every interval kept starts
\* at the value of the most recent line before it that has a parsable
\* silence_end marker and no silence_start marker (0 if none); a line with
\* both markers does not move the cursor.
C18_StartIsLastEndOnlyLine ==
    /\ CursorMovesOnEndOnly
    /\ [](silence_end = LastEndOnlyValue(consumed))
    /\ [][ emitted' # emitted
           => emitted'[Len(emitted')].start = LastEndOnlyValue(consumed) ]_vars

\* Two silence_start lines with no silence_end between them have each kept an
\* interval, both starting at the silence_end read before them.
C18_Witness ==
    /\ Len(consumed) = 3
    /\ IsEndOnlyLine(consumed[1])
    /\ Len(emitted) = 2
    /\ emitted[1].start = MarkerTicks(consumed[1], EndMarker)
    /\ emitted[2].start = emitted[1].start
    /\ emitted[1].start # 0
    /\ pc = "Scanning"

====
